---- MODULE Spec2Model ----
(***************************************************************************)
(* A model of TrafficLightDataCollector (collect_traffic_light_data.py):   *)
(* the capture loop of run(), save_image, the two sensor callbacks and the *)
(* distance classifier.  The simulator (CARLA), the display (pygame) and   *)
(* the image writer (cv2.imwrite) are the environment: what they return or *)
(* raise is chosen nondeterministically.                                   *)
(***************************************************************************)
EXTENDS Integers, Sequences, FiniteSets, TLC

VARIABLES
    pc,          \* position of run() (a line of the source, see each action)
    exc,         \* the exception in flight, "none" when there is none
    running,     \* local `running` of run()
    vehicleAlive,\* av.vehicle is a live actor of the simulator
    nSensors,    \* number of sensors of av.sensors that are live actors
    listening,   \* camera channels whose sensor has a callback attached
    syncMode,    \* the world's settings.synchronous_mode
    fixedDelta,  \* the world's settings.fixed_delta_seconds
    frame,       \* self.frame_narrow / self.frame_wide, by camera
    captured,    \* keys k with self.captured[k] = True
    counters,    \* self.counters
    stats,       \* self.stats
    files,       \* image files on disk: <<camera, bucket, idx>>
    writes,      \* per key, the number of files cv2.imwrite wrote for it
    vehicle,     \* the vehicle's pose in the simulator
    i,           \* number of traffic lights the `for tl` loop has taken
    tl,          \* local `tl` (its id)
    bucket,      \* local `bucket`
    j,           \* number of cameras the `for camera` loop has taken
    camera,      \* local `camera`
    frameLocal,  \* local `frame` of save_image
    filename,    \* local `filename` of run()
    lastWrite,   \* the pixels cv2.imwrite was handed in the current save
    seen,        \* per camera, whether line 226 found its frame present
    tick0,       \* captured / counters / files / writes when the tick began
    arg,         \* the argument of a pure function under check
    res,         \* its result
    expired,     \* time.time() - start_time >= duration
    qDown,       \* the Q key is held down (pygame's keyboard state)
    quitQueued,  \* a pygame.QUIT event waits in the event queue
    qRaised      \* the Q key has been pressed since the loop began

vars == <<pc, exc, running, vehicleAlive, nSensors, listening, syncMode,
          fixedDelta, frame, captured, counters, stats, files, writes,
          vehicle, i, tl, bucket, j, camera, frameLocal, filename, lastWrite,
          seen, tick0, arg, res, expired, qDown, quitQueued, qRaised>>

(***************************************************************************)
(* Bounds of the model.                                                    *)
(***************************************************************************)
\* fixed-point units per metre in which a distance is represented
Scale == 2
\* largest distance (metres) handed to get_distance_bucket on its own
MaxDist == 50
\* number of writes on which cv2.imwrite may return False in one run
MaxFalseWrites == 1

None == "None"

(***************************************************************************)
(* __init__ (lines 38-60)                                                  *)
(***************************************************************************)
cameras == <<"narrow", "wide">>
distances == <<"40m", "30m", "20m", "10m">>

Cameras == {cameras[n] : n \in 1..Len(cameras)}
Buckets == {distances[n] : n \in 1..Len(distances)}
Dirs == Cameras \X Buckets

\* the sensors equip_sensors attaches, in its order
SensorNames == <<"front_narrow", "front_wide", "left_front", "right_front",
                 "left_side", "right_side", "rear", "lidar">>

(***************************************************************************)
(* The environment: the traffic lights of the map, the poses the vehicle   *)
(* can take, the pixel contents a camera can deliver.                      *)
(***************************************************************************)
TrafficLights == <<1, 2>>
TLIds == {TrafficLights[n] : n \in 1..Len(TrafficLights)}

TLLocation(id) == IF id = 1 THEN <<50, 0, 0>> ELSE <<60, 12, 0>>

\* [loc: the vehicle's location, fwd: its forward vector (x, y)]
Poses ==
    { [loc |-> <<0, 0, 0>>,  fwd |-> <<1, 0>>],
      [loc |-> <<25, 0, 0>>, fwd |-> <<1, 0>>],
      [loc |-> <<38, 0, 0>>, fwd |-> <<1, 0>>],
      [loc |-> <<50, 5, 0>>, fwd |-> <<1, 0>>],
      [loc |-> <<62, 0, 0>>, fwd |-> <<1, 0>>],
      [loc |-> <<50, 10, 0>>, fwd |-> <<0, -1>>] }

Frames == {"f1", "f2"}

Keys == TLIds \X Buckets \X Cameras

(***************************************************************************)
(* carla.Location.distance: the Euclidean distance, here in fixed point    *)
(* (Scale units per metre) and rounded up.  Rounding up keeps every        *)
(* comparison `distance <= t` with an integer t exact.                     *)
(***************************************************************************)
Sq(x) == x * x

CeilSqrt(n) == CHOOSE k \in 0..(n + 1) : Sq(k) >= n /\ (k = 0 \/ Sq(k - 1) < n)

Distance(a, b) ==
    CeilSqrt(Sq(Scale) * (Sq(a[1] - b[1]) + Sq(a[2] - b[2]) + Sq(a[3] - b[3])))

(***************************************************************************)
(* get_distance_bucket (lines 62-72); `distance` in fixed point.           *)
(***************************************************************************)
get_distance_bucket_nearer_exclusive(distance) ==
    IF distance < 12 * Scale THEN "10m"
    ELSE IF distance < 25 * Scale THEN "20m"
    ELSE IF distance < 35 * Scale THEN "30m"
    ELSE IF distance < 45 * Scale THEN "40m"
    ELSE None

get_distance_bucket(distance) ==
    IF distance <= 12 * Scale THEN "10m"
    ELSE IF distance <= 25 * Scale THEN "20m"
    ELSE IF distance <= 35 * Scale THEN "30m"
    ELSE IF distance <= 45 * Scale THEN "40m"
    ELSE None

(***************************************************************************)
(* run(), lines 246-258: the planar offset to the light, its dot product   *)
(* with the forward vector, and the test `dot < 0`.                        *)
(***************************************************************************)
\* lines 249-253: the offset from the vehicle to the light, z dropped
ToTl(pose, id) ==
    <<TLLocation(id)[1] - pose.loc[1], TLLocation(id)[2] - pose.loc[2]>>

\* line 256
DotProduct(forward, to_tl) == forward[1] * to_tl[1] + forward[2] * to_tl[2]

Dot(pose, id) == DotProduct(pose.fwd, ToTl(pose, id))

\* line 257 with a margin: a light counts as behind from a dot product of one
\* unit below zero on
BehindVehicleWithMargin(forward, to_tl) == DotProduct(forward, to_tl) + 1 < 0

\* line 257: if dot < 0
BehindVehicle(forward, to_tl) == DotProduct(forward, to_tl) < 0

IsBehindOrAbeam(pose, id) == Dot(pose, id) <= 0

IsBehind(pose, id) == BehindVehicle(pose.fwd, ToTl(pose, id))

(***************************************************************************)
(* The state after TrafficLightDataCollector(output_dir), before run().    *)
(***************************************************************************)
NoFile == <<>>

Snapshot == [captured |-> captured, counters |-> counters, stats |-> stats,
             files |-> files, writes |-> writes]

InitWith(fr) ==
    /\ pc = "idle"
    /\ exc = "none"
    /\ running = FALSE
    /\ vehicleAlive = FALSE
    /\ nSensors = 0
    /\ listening = {}
    /\ syncMode = FALSE
    /\ fixedDelta = None
    /\ frame = fr
    /\ captured = {}
    /\ counters = [d \in Dirs |-> 0]
    /\ stats = [d \in Dirs |-> 0]
    /\ files = {}
    /\ writes = [k \in Keys |-> 0]
    /\ vehicle = [loc |-> <<0, 0, 0>>, fwd |-> <<1, 0>>]
    /\ i = 0
    /\ tl = 0
    /\ bucket = None
    /\ j = 0
    /\ camera = None
    /\ frameLocal = None
    /\ filename = NoFile
    /\ lastWrite = None
    /\ seen = [c \in Cameras |-> FALSE]
    /\ tick0 = [captured |-> {}, counters |-> [d \in Dirs |-> 0],
                stats |-> [d \in Dirs |-> 0], files |-> {},
                writes |-> [k \in Keys |-> 0]]
    /\ expired = FALSE
    /\ qDown = FALSE
    /\ quitQueued = FALSE
    /\ qRaised = FALSE

\* lines 56-57: no frame yet
InitRun == InitWith([c \in Cameras |-> None])

Init ==
    /\ InitRun
    /\ arg = 0
    /\ res = None

worldVars == <<vehicleAlive, nSensors, listening, syncMode, fixedDelta>>
dataVars == <<captured, counters, stats, files, writes>>
tlVars == <<i, tl, bucket>>
camVars == <<j, camera>>
saveVars == <<frameLocal, filename, lastWrite>>
pureVars == <<arg, res>>
inputVars == <<expired, qDown, quitQueued, qRaised>>

SetupPcs == {"idle", "spawn_world", "spawn_vehicle", "equip_sensors", "sync_mode",
             "listen_narrow", "listen_wide", "pygame_init"}

\* the positions inside the try block (lines 158-274)
TickPcs == {"poll", "control", "world_tick", "spectator", "gate", "continue_227"}
CamPcs == {"cam_check", "cam_skip", "save_read", "save_write", "save_ret", "mark", "log"}
CapturePcs == {"query", "tl_next", "tl_bucket", "continue_242", "tl_dot",
               "continue_258", "cam_next"} \cup CamPcs
RunningPcs == {"loop_test", "progress"} \cup TickPcs \cup CapturePcs

StoppingPcs == {"except_276", "finally", "restore_sync", "summary"}
TerminatedPcs == {"done", "crashed"}

(***************************************************************************)
(* run(), lines 107-156: the setup, outside the try block.                 *)
(***************************************************************************)
\* lines 109-118: carla.Client, AutonomousVehicle(client)
Start ==
    /\ pc = "idle"
    /\ pc' = "spawn_world"
    /\ UNCHANGED <<exc, running, worldVars, frame, dataVars, vehicle, tlVars,
                   camVars, saveVars, seen, tick0, pureVars, inputVars>>

\* line 119: av.spawn_world(town)
SpawnWorld ==
    /\ pc = "spawn_world"
    /\ pc' = "spawn_vehicle"
    /\ UNCHANGED <<exc, running, worldVars, frame, dataVars, vehicle, tlVars,
                   camVars, saveVars, seen, tick0, pureVars, inputVars>>

\* line 120: av.spawn_vehicle (autonomous_vehicle.py 20-27)
SpawnVehicle ==
    /\ pc = "spawn_vehicle"
    /\ vehicleAlive' = TRUE
    /\ pc' = "equip_sensors"
    /\ UNCHANGED <<exc, running, nSensors, listening, syncMode, fixedDelta, frame,
                   dataVars, vehicle, tlVars, camVars, saveVars, seen, tick0,
                   pureVars, inputVars>>

\* line 121: av.equip_sensors (autonomous_vehicle.py 29-94), one sensor a step
EquipSensor ==
    /\ pc = "equip_sensors"
    /\ nSensors < Len(SensorNames)
    /\ nSensors' = nSensors + 1
    /\ pc' = IF nSensors' = Len(SensorNames) THEN "sync_mode" ELSE "equip_sensors"
    /\ UNCHANGED <<exc, running, vehicleAlive, listening, syncMode, fixedDelta,
                   frame, dataVars, vehicle, tlVars, camVars, saveVars, seen,
                   tick0, pureVars, inputVars>>

\* lines 124-131: synchronous mode on, fixed step 0.05
SetSyncMode ==
    /\ pc = "sync_mode"
    /\ syncMode' = TRUE
    /\ fixedDelta' = "0.05"
    /\ pc' = "listen_narrow"
    /\ UNCHANGED <<exc, running, vehicleAlive, nSensors, listening, frame,
                   dataVars, vehicle, tlVars, camVars, saveVars, seen, tick0,
                   pureVars, inputVars>>

\* line 134: av.sensors['front_narrow'].listen(self.narrow_callback)
ListenNarrow ==
    /\ pc = "listen_narrow"
    /\ listening' = listening \cup {"narrow"}
    /\ pc' = "listen_wide"
    /\ UNCHANGED <<exc, running, vehicleAlive, nSensors, syncMode, fixedDelta,
                   frame, dataVars, vehicle, tlVars, camVars, saveVars, seen,
                   tick0, pureVars, inputVars>>

\* line 135: av.sensors['front_wide'].listen(self.wide_callback)
ListenWide ==
    /\ pc = "listen_wide"
    /\ listening' = listening \cup {"wide"}
    /\ pc' = "pygame_init"
    /\ UNCHANGED <<exc, running, vehicleAlive, nSensors, syncMode, fixedDelta,
                   frame, dataVars, vehicle, tlVars, camVars, saveVars, seen,
                   tick0, pureVars, inputVars>>

\* lines 137-159: pygame.init, the instructions, start_time, running = True
PygameInit ==
    /\ pc = "pygame_init"
    /\ running' = TRUE
    /\ pc' = "loop_test"
    /\ UNCHANGED <<exc, worldVars, frame, dataVars, vehicle, tlVars, camVars,
                   saveVars, seen, tick0, pureVars, inputVars>>

\* A call of lines 115-140 raises (or the user interrupts): the statements are
\* outside the try block of line 158, so the exception leaves run() at once.
SetupFail ==
    /\ pc \in SetupPcs
    /\ \E e \in {"SetupError", "KeyboardInterrupt"} : exc' = e
    /\ pc' = "crashed"
    /\ UNCHANGED <<running, worldVars, frame, dataVars, vehicle, tlVars, camVars,
                   saveVars, seen, tick0, pureVars, inputVars>>

(***************************************************************************)
(* narrow_callback / wide_callback (lines 74-84), on the simulator's       *)
(* thread, at any moment while the sensor listens.                         *)
(***************************************************************************)
\* lines 74-84 storing the frame in both slots
CallbackBothSlots(c) ==
    /\ c \in listening
    /\ pc \notin TerminatedPcs
    /\ \E f \in Frames : frame' = [o \in Cameras |-> f]
    /\ UNCHANGED <<pc, exc, running, worldVars, dataVars, vehicle, tlVars,
                   camVars, saveVars, seen, tick0, pureVars, inputVars>>

Callback(c) ==
    /\ c \in listening
    /\ pc \notin TerminatedPcs
    /\ \E f \in Frames : frame' = [frame EXCEPT ![c] = f]
    /\ UNCHANGED <<pc, exc, running, worldVars, dataVars, vehicle, tlVars,
                   camVars, saveVars, seen, tick0, pureVars, inputVars>>

narrow_callback == Callback("narrow")

wide_callback == Callback("wide")

(***************************************************************************)
(* run(), lines 158-274: the loop, inside the try block.                   *)
(***************************************************************************)
\* line 160: while running and time.time() - start_time < duration
LoopTest ==
    /\ pc = "loop_test"
    /\ pc' = IF running /\ ~expired THEN "poll" ELSE "finally"
    /\ tick0' = Snapshot
    /\ UNCHANGED <<exc, running, worldVars, frame, dataVars, vehicle, tlVars,
                   camVars, saveVars, seen, pureVars, inputVars>>

\* lines 162-171: the event queue is emptied, the keyboard state is sampled
Poll ==
    /\ pc = "poll"
    /\ running' = IF quitQueued \/ qDown THEN FALSE ELSE running
    /\ quitQueued' = FALSE
    /\ pc' = IF qDown THEN "finally" ELSE "control"
    /\ UNCHANGED <<exc, worldVars, frame, dataVars, vehicle, tlVars, camVars,
                   saveVars, seen, tick0, pureVars, expired, qDown, qRaised>>

\* lines 173-208: the control command is computed and applied, the window drawn
Control ==
    /\ pc = "control"
    /\ pc' = "world_tick"
    /\ UNCHANGED <<exc, running, worldVars, frame, dataVars, vehicle, tlVars,
                   camVars, saveVars, seen, tick0, pureVars, inputVars>>

\* lines 210-211: world.tick() advances the simulation: the vehicle moves
WorldTickTo(ps) ==
    /\ pc = "world_tick"
    /\ \E p \in ps : vehicle' = p
    /\ pc' = "spectator"
    /\ UNCHANGED <<exc, running, worldVars, frame, dataVars, tlVars, camVars,
                   saveVars, seen, tick0, pureVars, inputVars>>

WorldTick == WorldTickTo(Poses)

\* lines 213-224: the spectator follows the vehicle
Spectator ==
    /\ pc = "spectator"
    /\ pc' = "gate"
    /\ UNCHANGED <<exc, running, worldVars, frame, dataVars, vehicle, tlVars,
                   camVars, saveVars, seen, tick0, pureVars, inputVars>>

\* line 226, negated: neither frame is None
AnyFramePresent == frame["narrow"] # None \/ frame["wide"] # None

NarrowFramePresent == frame["narrow"] # None

BothFramesPresent == frame["narrow"] # None /\ frame["wide"] # None

\* lines 226-227
Gate ==
    /\ pc = "gate"
    /\ seen' = [c \in Cameras |-> frame[c] # None]
    /\ pc' = IF BothFramesPresent THEN "query" ELSE "continue_227"
    /\ UNCHANGED <<exc, running, worldVars, frame, dataVars, vehicle, tlVars,
                   camVars, saveVars, tick0, pureVars, inputVars>>

\* line 227: continue
Continue227 ==
    /\ pc = "continue_227"
    /\ pc' = "loop_test"
    /\ UNCHANGED <<exc, running, worldVars, frame, dataVars, vehicle, tlVars,
                   camVars, saveVars, seen, tick0, pureVars, inputVars>>

\* lines 229-233: the vehicle's location, the list of traffic lights
Query ==
    /\ pc = "query"
    /\ i' = 0
    /\ pc' = "tl_next"
    /\ UNCHANGED <<exc, running, worldVars, frame, dataVars, vehicle, tl, bucket,
                   camVars, saveVars, seen, tick0, pureVars, inputVars>>

\* line 235: for tl in traffic_lights.  When the list is exhausted the loop's
\* locals are dead (each is assigned before it is read again) and are cleared.
TlNext ==
    /\ pc = "tl_next"
    /\ IF i < Len(TrafficLights)
       THEN /\ tl' = TrafficLights[i + 1]
            /\ i' = i + 1
            /\ bucket' = None
            /\ pc' = "tl_bucket"
       ELSE /\ tl' = 0
            /\ i' = 0
            /\ bucket' = None
            /\ pc' = "progress"
    /\ UNCHANGED <<exc, running, worldVars, frame, dataVars, vehicle, camVars,
                   saveVars, seen, tick0, pureVars, inputVars>>

\* lines 236-242
TlBucket ==
    /\ pc = "tl_bucket"
    /\ bucket' = get_distance_bucket(Distance(vehicle.loc, TLLocation(tl)))
    /\ pc' = IF bucket' = None THEN "continue_242" ELSE "tl_dot"
    /\ UNCHANGED <<exc, running, worldVars, frame, dataVars, vehicle, i, tl,
                   camVars, saveVars, seen, tick0, pureVars, inputVars>>

\* line 242: continue
Continue242 ==
    /\ pc = "continue_242"
    /\ pc' = "tl_next"
    /\ UNCHANGED <<exc, running, worldVars, frame, dataVars, vehicle, tlVars,
                   camVars, saveVars, seen, tick0, pureVars, inputVars>>

\* lines 244-258
TlDot ==
    /\ pc = "tl_dot"
    /\ pc' = IF IsBehind(vehicle, tl) THEN "continue_258" ELSE "cam_next"
    /\ j' = 0
    /\ camera' = None
    /\ UNCHANGED <<exc, running, worldVars, frame, dataVars, vehicle, tlVars,
                   saveVars, seen, tick0, pureVars, inputVars>>

\* line 258: continue
Continue258 ==
    /\ pc = "continue_258"
    /\ pc' = "tl_next"
    /\ UNCHANGED <<exc, running, worldVars, frame, dataVars, vehicle, tlVars,
                   camVars, saveVars, seen, tick0, pureVars, inputVars>>

\* line 261: for camera in self.cameras
CamNext ==
    /\ pc = "cam_next"
    /\ IF j < Len(cameras)
       THEN /\ camera' = cameras[j + 1]
            /\ j' = j + 1
            /\ pc' = "cam_check"
       ELSE /\ camera' = None
            /\ j' = 0
            /\ pc' = "tl_next"
    /\ UNCHANGED <<exc, running, worldVars, frame, dataVars, vehicle, tlVars,
                   saveVars, seen, tick0, pureVars, inputVars>>

\* line 262
Key == <<tl, bucket, camera>>

\* line 263: self.captured[key]
NeverCaptured(key) == FALSE

\* the camera left out of the key
CapturedForAnyCamera(key) == \E c \in Cameras : <<key[1], key[2], c>> \in captured

\* the bucket left out of the key
CapturedInAnyBucket(key) == \E b \in Buckets : <<key[1], b, key[3]>> \in captured

AlreadyCaptured(key) == key \in captured

\* lines 262-263
CamCheck ==
    /\ pc = "cam_check"
    /\ pc' = IF AlreadyCaptured(Key) THEN "cam_skip" ELSE "save_read"
    /\ UNCHANGED <<exc, running, worldVars, frame, dataVars, vehicle, tlVars,
                   camVars, saveVars, seen, tick0, pureVars, inputVars>>

\* line 263 false: nothing to do for this camera
CamSkip ==
    /\ pc = "cam_skip"
    /\ pc' = "cam_next"
    /\ UNCHANGED <<exc, running, worldVars, frame, dataVars, vehicle, tlVars,
                   camVars, saveVars, seen, tick0, pureVars, inputVars>>

(***************************************************************************)
(* save_image (lines 86-105), called at line 264.                          *)
(***************************************************************************)
\* lines 88-93: the frame of the camera is read into the local `frame`
\* lines 88-93 without `is not None`
SaveReadAnyFrame ==
    /\ pc = "save_read"
    /\ IF camera \in Cameras
       THEN /\ frameLocal' = frame[camera]
            /\ pc' = "save_write"
            /\ UNCHANGED filename
       ELSE /\ filename' = NoFile
            /\ pc' = "save_ret"
            /\ UNCHANGED frameLocal
    /\ UNCHANGED <<exc, running, worldVars, frame, dataVars, vehicle, tlVars,
                   camVars, lastWrite, seen, tick0, pureVars, inputVars>>

\* lines 88-93
SaveRead ==
    /\ pc = "save_read"
    /\ IF camera \in Cameras /\ frame[camera] # None
       THEN /\ frameLocal' = frame[camera]
            /\ pc' = "save_write"
            /\ UNCHANGED filename
       ELSE /\ filename' = NoFile
            /\ pc' = "save_ret"
            /\ UNCHANGED frameLocal
    /\ UNCHANGED <<exc, running, worldVars, frame, dataVars, vehicle, tlVars,
                   camVars, lastWrite, seen, tick0, pureVars, inputVars>>

RECURSIVE SumCounters(_)
SumCounters(ds) ==
    IF ds = {} THEN 0
    ELSE LET d == CHOOSE x \in ds : TRUE
         IN  counters[d] + SumCounters(ds \ {d})

\* the writes so far on which cv2.imwrite returned False
FalseWrites == SumCounters(Dirs) - Cardinality(files)

\* what cv2.imwrite can do: write the file and return True, write nothing and
\* return False, or raise cv2.error
ImwriteOutcomes ==
    {"ok", "raise"} \cup (IF FalseWrites < MaxFalseWrites THEN {"false"} ELSE {})

\* line 95 with the folder of the first camera for every camera
FilePathFirstCamera(cam, b) == <<cameras[1], b, counters[<<cam, b>>]>>

\* lines 95-99: the path, from the counter of the folder
FilePath(cam, b) == <<cam, b, counters[<<cam, b>>]>>

\* lines 102-103: += 1
NotIncremented(n) == n

Incremented(n) == n + 1

\* line 101 reading the slot again: cv2.imwrite(filepath, self.frame_<camera>)
SlotPixels == frame[camera]

\* line 101: cv2.imwrite(filepath, frame), the local of lines 89, 91
WrittenPixels == frameLocal

\* lines 95-105
SaveWrite ==
    /\ pc = "save_write"
    /\ \E outcome \in ImwriteOutcomes :
          IF outcome = "raise"
          THEN /\ exc' = "WriteError"
               /\ pc' = "finally"
               /\ UNCHANGED <<dataVars, saveVars>>
          ELSE /\ files' = IF outcome = "ok"
                           THEN files \cup {FilePath(camera, bucket)}
                           ELSE files
               /\ writes' = IF outcome = "ok"
                            THEN [writes EXCEPT ![Key] = @ + 1]
                            ELSE writes
               /\ lastWrite' = IF outcome = "ok" THEN WrittenPixels ELSE None
               /\ counters' = [counters EXCEPT
                                 ![<<camera, bucket>>] = Incremented(@)]
               /\ stats' = [stats EXCEPT ![<<camera, bucket>>] = Incremented(@)]
               /\ filename' = FilePath(camera, bucket)
               /\ pc' = "save_ret"
               /\ UNCHANGED <<exc, captured, frameLocal>>
    /\ UNCHANGED <<running, worldVars, frame, vehicle, tlVars, camVars, seen,
                   tick0, pureVars, inputVars>>

\* lines 264-265: filename = self.save_image(...); if filename
SaveRet ==
    /\ pc = "save_ret"
    /\ IF filename # NoFile
       THEN /\ pc' = "mark"
            /\ UNCHANGED saveVars
       ELSE /\ pc' = "cam_next"
            /\ frameLocal' = None
            /\ filename' = NoFile
            /\ lastWrite' = None
    /\ UNCHANGED <<exc, running, worldVars, frame, dataVars, vehicle, tlVars,
                   camVars, seen, tick0, pureVars, inputVars>>

\* line 266 replacing the ledger: self.captured = {key: True}
MarkedAlone(key) == {key}

\* line 266: self.captured[key] = True
Marked(key) == captured \cup {key}

Mark ==
    /\ pc = "mark"
    /\ captured' = Marked(Key)
    /\ pc' = "log"
    /\ UNCHANGED <<exc, running, worldVars, frame, counters, stats, files, writes,
                   vehicle, tlVars, camVars, saveVars, seen, tick0, pureVars, inputVars>>

\* lines 267-268: tl.get_state(), print.  The locals of the save are dead.
Log ==
    /\ pc = "log"
    /\ pc' = "cam_next"
    /\ frameLocal' = None
    /\ filename' = NoFile
    /\ lastWrite' = None
    /\ UNCHANGED <<exc, running, worldVars, frame, dataVars, vehicle, tlVars,
                   camVars, seen, tick0, pureVars, inputVars>>

\* lines 270-274: the progress line
Progress ==
    /\ pc = "progress"
    /\ pc' = "loop_test"
    /\ UNCHANGED <<exc, running, worldVars, frame, dataVars, vehicle, tlVars,
                   camVars, saveVars, seen, tick0, pureVars, inputVars>>

(***************************************************************************)
(* Exceptions inside the try block.  Only KeyboardInterrupt has a handler  *)
(* (line 276); every other exception runs the finally block and leaves     *)
(* run().                                                                  *)
(***************************************************************************)
\* the simulator calls of the capture phase: get_location, get_actors (230-233),
\* tl.get_location (236), get_transform (247), tl.get_state (267)
QueryPcs == {"query", "tl_bucket", "tl_dot", "log"}

\* the simulator calls before it: get_velocity, apply_control (183, 201),
\* world.tick (210), get_transform, set_transform (214-224)
EnvPcs == {"control", "world_tick", "spectator"}

QueryFail ==
    /\ pc \in QueryPcs
    /\ exc' = "QueryError"
    /\ pc' = "finally"
    /\ UNCHANGED <<running, worldVars, frame, dataVars, vehicle, tlVars, camVars,
                   saveVars, seen, tick0, pureVars, inputVars>>

EnvFail ==
    /\ pc \in EnvPcs
    /\ exc' = "EnvError"
    /\ pc' = "finally"
    /\ UNCHANGED <<running, worldVars, frame, dataVars, vehicle, tlVars, camVars,
                   saveVars, seen, tick0, pureVars, inputVars>>

\* lines 156, 160: the wall clock passes start_time + duration.  It can do so
\* at any line of the loop
Expire ==
    /\ pc \in RunningPcs
    /\ ~expired
    /\ expired' = TRUE
    /\ UNCHANGED <<pc, exc, running, worldVars, frame, dataVars, vehicle,
                   tlVars, camVars, saveVars, seen, tick0, pureVars, qDown,
                   quitQueued, qRaised>>

\* The clock is read at line 160 only, so for everything but the moment of the
\* expiry it is enough to let the clock pass the budget right before line 160
ExpireAtLoopTest ==
    /\ pc = "loop_test"
    /\ Expire

\* The user presses the Q key while the loop runs
PressQ ==
    /\ pc \in RunningPcs
    /\ ~qDown
    /\ qDown' = TRUE
    /\ qRaised' = TRUE
    /\ UNCHANGED <<pc, exc, running, worldVars, frame, dataVars, vehicle,
                   tlVars, camVars, saveVars, seen, tick0, pureVars, expired,
                   quitQueued>>

\* The user lets the Q key go.  pygame.key.get_pressed() (line 166) gives the
\* state of the keyboard when the events were last processed (line 162): a key
\* pressed and let go between two calls is down in neither
ReleaseQ ==
    /\ pc \in RunningPcs
    /\ qDown
    /\ qDown' = FALSE
    /\ UNCHANGED <<pc, exc, running, worldVars, frame, dataVars, vehicle,
                   tlVars, camVars, saveVars, seen, tick0, pureVars, expired,
                   quitQueued, qRaised>>

\* The user closes the window: pygame queues a QUIT event
CloseWindow ==
    /\ pc \in RunningPcs
    /\ ~quitQueued
    /\ quitQueued' = TRUE
    /\ UNCHANGED <<pc, exc, running, worldVars, frame, dataVars, vehicle,
                   tlVars, camVars, saveVars, seen, tick0, pureVars, expired,
                   qDown, qRaised>>

\* The keyboard and the event queue are read at lines 162-166 only, so for
\* everything but the moment of the input it is enough to let the user act
\* right before line 162
PressQAtPoll ==
    /\ pc = "poll"
    /\ PressQ

CloseWindowAtPoll ==
    /\ pc = "poll"
    /\ CloseWindow

\* Ctrl+C anywhere in the try block
Interrupt ==
    /\ pc \in RunningPcs
    /\ exc' = "KeyboardInterrupt"
    /\ pc' = "except_276"
    /\ UNCHANGED <<running, worldVars, frame, dataVars, vehicle, tlVars, camVars,
                   saveVars, seen, tick0, pureVars, inputVars>>

\* lines 276-277 without the handler: the interrupt stays in flight
ExceptNotCaught ==
    /\ pc = "except_276"
    /\ pc' = "finally"
    /\ UNCHANGED <<exc, running, worldVars, frame, dataVars, vehicle, tlVars,
                   camVars, saveVars, seen, tick0, pureVars, inputVars>>

\* lines 276-277: except KeyboardInterrupt
Except ==
    /\ pc = "except_276"
    /\ exc' = "caught"
    /\ pc' = "finally"
    /\ UNCHANGED <<running, worldVars, frame, dataVars, vehicle, tlVars, camVars,
                   saveVars, seen, tick0, pureVars, inputVars>>

(***************************************************************************)
(* run(), lines 279-308: the finally block and the summary.                *)
(***************************************************************************)
\* lines 280-286: pygame.quit, every sensor stopped and destroyed, the vehicle
\* destroyed
Release ==
    /\ pc = "finally"
    /\ listening' = {}
    /\ nSensors' = 0
    /\ vehicleAlive' = FALSE
    /\ pc' = "restore_sync"
    /\ UNCHANGED <<exc, running, syncMode, fixedDelta, frame, dataVars, vehicle,
                   tlVars, camVars, saveVars, seen, tick0, pureVars, inputVars>>

\* lines 288-291: synchronous_mode = False; then the exception in flight, if
\* any, leaves run()
RestoreSync ==
    /\ pc = "restore_sync"
    /\ syncMode' = FALSE
    /\ pc' = IF exc \in {"none", "caught"} THEN "summary" ELSE "crashed"
    /\ UNCHANGED <<exc, running, vehicleAlive, nSensors, listening, fixedDelta,
                   frame, dataVars, vehicle, tlVars, camVars, saveVars, seen,
                   tick0, pureVars, inputVars>>

\* lines 293-308
Summary ==
    /\ pc = "summary"
    /\ pc' = "done"
    /\ UNCHANGED <<exc, running, worldVars, frame, dataVars, vehicle, tlVars,
                   camVars, saveVars, seen, tick0, pureVars, inputVars>>

Next ==
    \/ Start \/ SpawnWorld \/ SpawnVehicle \/ EquipSensor \/ SetSyncMode
    \/ ListenNarrow \/ ListenWide \/ PygameInit \/ SetupFail
    \/ narrow_callback \/ wide_callback
    \/ LoopTest \/ Poll \/ Control \/ WorldTick \/ Spectator \/ Gate
    \/ Continue227 \/ Query \/ TlNext \/ TlBucket \/ Continue242 \/ TlDot
    \/ Continue258 \/ CamNext \/ CamCheck \/ CamSkip
    \/ SaveRead \/ SaveWrite \/ SaveRet \/ Mark \/ Log \/ Progress
    \/ QueryFail \/ EnvFail \/ ExpireAtLoopTest \/ PressQAtPoll
    \/ CloseWindowAtPoll \/ Interrupt \/ Except
    \/ Release \/ RestoreSync \/ Summary

Spec == Init /\ [][Next]_vars

(***************************************************************************)
(* get_distance_bucket on its own: any distance of 0..MaxDist metres, in   *)
(* steps of 1/Scale metre.                                                 *)
(***************************************************************************)
InitBucket ==
    /\ InitRun
    /\ arg \in 0..(MaxDist * Scale)
    /\ res = "unset"

Classify ==
    /\ res = "unset"
    /\ res' = get_distance_bucket(arg)
    /\ UNCHANGED <<pc, exc, running, worldVars, frame, dataVars, vehicle, tlVars,
                   camVars, saveVars, seen, tick0, arg, inputVars>>

NextBucket == Classify

SpecBucket == InitBucket /\ [][NextBucket]_vars

(***************************************************************************)
(* What the claims speak of.                                               *)
(***************************************************************************)
\* the tick is over: line 227 (continue) or line 274 (the end of the body)
TickEndPcs == {"continue_227", "progress"}

BucketOf(pose, id) == get_distance_bucket(Distance(pose.loc, TLLocation(id)))

\* in range and not behind: lines 240-258 let the light through
Eligible(pose, id) == BucketOf(pose, id) # None /\ Dot(pose, id) >= 0

FilesIn(fs, d) == {f \in fs : <<f[1], f[2]>> = d}

DataUnchangedInTick ==
    /\ captured = tick0.captured
    /\ counters = tick0.counters
    /\ files = tick0.files

(***************************************************************************)
(* C1: every key (entity, bucket, camera) is persisted at most once in a   *)
(* run; a key that is already marked, when offered again, is skipped: the  *)
(* step writes no file and changes no counter.                             *)
(***************************************************************************)
C1_PersistAtMostOnce ==
    /\ [](\A k \in Keys : writes[k] <= 1)
    /\ [][(pc = "cam_check" /\ Key \in captured)
            => /\ pc' # "save_read"
               /\ files' = files
               /\ counters' = counters
               /\ stats' = stats]_vars

\* a key persisted once before is offered again and skipped
C1_Witness == pc = "cam_skip" /\ Key \in tick0.captured /\ writes[Key] = 1

(***************************************************************************)
(* C2 (as claimed): a key whose write failed is not marked, so every       *)
(* marked key has a file that was written for it.                          *)
(***************************************************************************)
C2_FailedWriteNotMarked == \A k \in captured : writes[k] >= 1

(***************************************************************************)
(* C3 (as claimed): the counter of a folder goes up by 1 on a successful   *)
(* persist and by nothing else, so it is the number of files written into  *)
(* the folder.                                                             *)
(***************************************************************************)
C3_CounterCountsPersists ==
    \A d \in Dirs : counters[d] = Cardinality(FilesIn(files, d))

(***************************************************************************)
(* C4 (as claimed): whenever run() is left, the cleanup has run: no sensor *)
(* and no vehicle is left alive, no callback attached, synchronous mode    *)
(* off.                                                                    *)
(***************************************************************************)
C4_CleanupOnEveryExit ==
    pc \in TerminatedPcs
        => nSensors = 0 /\ ~vehicleAlive /\ listening = {} /\ ~syncMode

(***************************************************************************)
(* C5 (as claimed): a failed environment query of the capture phase leaves *)
(* the run in the loop.                                                    *)
(***************************************************************************)
C5_QueryFailureKeepsRunning == exc = "QueryError" => pc \in RunningPcs

(***************************************************************************)
(* C6 (as claimed): a failed write of a frame leaves the run in the loop.  *)
(***************************************************************************)
C6_WriteFailureKeepsRunning == exc = "WriteError" => pc \in RunningPcs

(***************************************************************************)
(* C7 (as claimed): when line 226 finds the frame of one camera only, a    *)
(* light that is in range and ahead is, by the end of the tick, marked for *)
(* the camera whose frame is there.                                        *)
(***************************************************************************)
OneFrameSeen == seen["narrow"] # seen["wide"]

SeenCamera == IF seen["narrow"] THEN "narrow" ELSE "wide"

C7_PresentChannelStillCaptured ==
    (pc \in TickEndPcs /\ OneFrameSeen)
        => \A id \in TLIds :
              Eligible(vehicle, id)
                  => <<id, BucketOf(vehicle, id), SeenCamera>> \in captured

(***************************************************************************)
(* C7 (amended): when line 226 finds the frame of one camera only, the     *)
(* tick ends with the capture attempts of both cameras skipped: nothing is *)
(* persisted, counted or marked, for the camera whose frame is there       *)
(* either.                                                                 *)
(***************************************************************************)
C7_OneFrameMissingSkipsBoth ==
    (pc \in TickEndPcs /\ OneFrameSeen) => DataUnchangedInTick

\* one frame only, and a light in range and ahead that the camera whose frame
\* is there has not captured: the tick ends at line 227
C7_Witness ==
    /\ pc = "continue_227"
    /\ OneFrameSeen
    /\ \E id \in TLIds :
          /\ Eligible(vehicle, id)
          /\ <<id, BucketOf(vehicle, id), SeenCamera>> \notin captured

(***************************************************************************)
(* C8: the lights are enumerated and captures persisted only with both     *)
(* frames present at line 226; a tick in which a frame was missing there   *)
(* writes no file, changes no counter and marks no key.                    *)
(***************************************************************************)
C8_CaptureNeedsBothFrames ==
    /\ pc \in CapturePcs => (seen["narrow"] /\ seen["wide"] /\ BothFramesPresent)
    /\ (pc \in TickEndPcs \cup CapturePcs /\ ~(seen["narrow"] /\ seen["wide"]))
          => DataUnchangedInTick

\* no frame at all, with a light in range and ahead: the tick ends at line 227
C8_Witness ==
    /\ pc = "continue_227"
    /\ ~seen["narrow"] /\ ~seen["wide"]
    /\ \E id \in TLIds : Eligible(vehicle, id)

(***************************************************************************)
(* C9: get_distance_bucket is defined for every distance d >= 0, and gives *)
(* '10m' for d <= 12, '20m' for 12 < d <= 25, '30m' for 25 < d <= 35,      *)
(* '40m' for 35 < d <= 45, none for d > 45: a threshold belongs to the     *)
(* nearer bucket, the next representable distance to the next one.         *)
(***************************************************************************)
C9_BucketTable ==
    res # "unset" =>
        /\ res \in Buckets \cup {None}
        /\ arg \in 0..(12 * Scale) => res = "10m"
        /\ arg \in (12 * Scale + 1)..(25 * Scale) => res = "20m"
        /\ arg \in (25 * Scale + 1)..(35 * Scale) => res = "30m"
        /\ arg \in (35 * Scale + 1)..(45 * Scale) => res = "40m"
        /\ arg > 45 * Scale => res = None

\* a distance exactly on the threshold 25 has been classified
C9_Witness == arg = 25 * Scale /\ res = "20m"

(***************************************************************************)
(* C10: a light whose offset has a negative dot product with the forward   *)
(* vector is never offered to a camera and gets no file in that tick; a    *)
(* light with dot product 0 is not skipped as behind.                      *)
(***************************************************************************)
C10_BehindNeverCaptured ==
    /\ pc \in CamPcs \cup {"cam_next"} => Dot(vehicle, tl) >= 0
    /\ \A k \in Keys : writes[k] > tick0.writes[k] => Dot(vehicle, k[1]) >= 0
    /\ pc = "continue_258" => Dot(vehicle, tl) < 0

\* a light exactly abeam has been persisted and is being marked
C10_Witness == pc = "mark" /\ Dot(vehicle, tl) = 0 /\ writes[Key] = 1

(***************************************************************************)
(* Counting, for the claims about a whole tick.                            *)
(***************************************************************************)
RECURSIVE SumOf(_, _)
SumOf(f, ds) ==
    IF ds = {} THEN 0
    ELSE LET d == CHOOSE x \in ds : TRUE
         IN  f[d] + SumOf(f, ds \ {d})

\* the writes of the current tick on which cv2.imwrite returned False
FalseWritesInTick ==
    (SumOf(counters, Dirs) - Cardinality(files))
        - (SumOf(tick0.counters, Dirs) - Cardinality(tick0.files))

\* the files cv2.imwrite wrote into folder d, over all lights
WritesIn(d) == SumOf(writes, {k \in Keys : k[2] = d[2] /\ k[3] = d[1]})

KeysOf(id, b) == {<<id, b, c>> : c \in Cameras}

(***************************************************************************)
(* C11: from an empty ledger and counters at 0, a tick with both frames    *)
(* present, one light E at distance 10 ahead of the vehicle and no other   *)
(* light let through, in which every write succeeds, ends with exactly two *)
(* files (narrow/10m and wide/10m), the ledger holding exactly the keys    *)
(* (E, 10m, narrow) and (E, 10m, wide), and these two counters at 1.       *)
(***************************************************************************)
OnlyLightAtTen(E) ==
    /\ Distance(vehicle.loc, TLLocation(E)) = 10 * Scale
    /\ Dot(vehicle, E) > 0
    /\ \A id \in TLIds \ {E} : ~Eligible(vehicle, id)

FirstCaptureTickDone ==
    /\ pc = "progress"
    /\ tick0.captured = {}
    /\ tick0.files = {}
    /\ \A d \in Dirs : tick0.counters[d] = 0
    /\ FalseWritesInTick = 0

C11_FirstTickTwoFiles ==
    \A E \in TLIds :
        (FirstCaptureTickDone /\ OnlyLightAtTen(E))
            => /\ files = {<<"narrow", "10m", 0>>, <<"wide", "10m", 0>>}
               /\ captured = {<<E, "10m", "narrow">>, <<E, "10m", "wide">>}
               /\ \A d \in Dirs : counters[d] = IF d[2] = "10m" THEN 1 ELSE 0

\* such a tick has ended, with its two files on disk
C11_Witness ==
    /\ FirstCaptureTickDone
    /\ \E E \in TLIds : OnlyLightAtTen(E)
    /\ Cardinality(files) = 2

(***************************************************************************)
(* C12: a light E captured in bucket 20m that a later tick finds in bucket *)
(* 10m (ahead, both frames present, every write succeeding) is persisted   *)
(* and marked once more for each camera, under 10m; its 20m keys stay      *)
(* marked and get no new file, no file of before the tick is lost, and,    *)
(* unless another light is let through in 20m, the 20m folders and their   *)
(* counters are as they were.                                              *)
(***************************************************************************)
MovedCloser(E) ==
    /\ pc = "progress"
    /\ KeysOf(E, "20m") \subseteq tick0.captured
    /\ KeysOf(E, "10m") \cap tick0.captured = {}
    /\ BucketOf(vehicle, E) = "10m"
    /\ Dot(vehicle, E) >= 0
    /\ FalseWritesInTick = 0

C12_NewBucketNewCapture ==
    \A E \in TLIds :
        MovedCloser(E)
            => /\ \A k \in KeysOf(E, "10m") :
                     k \in captured /\ writes[k] = tick0.writes[k] + 1
               /\ \A c \in Cameras :
                     Cardinality(FilesIn(files, <<c, "10m">>))
                         > Cardinality(FilesIn(tick0.files, <<c, "10m">>))
               /\ \A k \in KeysOf(E, "20m") :
                     k \in captured /\ writes[k] = tick0.writes[k]
               /\ tick0.files \subseteq files
               /\ (\A id \in TLIds \ {E} :
                      ~(Eligible(vehicle, id) /\ BucketOf(vehicle, id) = "20m"))
                     => \A c \in Cameras :
                           /\ counters[<<c, "20m">>] = tick0.counters[<<c, "20m">>]
                           /\ FilesIn(files, <<c, "20m">>)
                                 = FilesIn(tick0.files, <<c, "20m">>)

\* light 1, captured at 20m in an earlier tick, has now been captured at 10m
C12_Witness ==
    /\ MovedCloser(1)
    /\ \A k \in KeysOf(1, "10m") : writes[k] = 1
    /\ \A k \in KeysOf(1, "20m") : writes[k] = 1

(***************************************************************************)
(* C14 (as claimed): when run() has ended, the settings of the world that  *)
(* it altered at lines 128-131 (synchronous_mode, fixed_delta_seconds)     *)
(* have the values they had before.                                        *)
(***************************************************************************)
\* the settings of the world before line 128
PriorSettings == [synchronous_mode |-> FALSE, fixed_delta_seconds |-> None]

C14_SettingsRestored ==
    pc = "done"
        => /\ syncMode = PriorSettings.synchronous_mode
           /\ fixedDelta = PriorSettings.fixed_delta_seconds

(***************************************************************************)
(* C15: an interrupt that stops the loop is caught (line 276), never ends  *)
(* run() with an exception, and the summary comes after the cleanup: when  *)
(* it is printed no sensor and no vehicle is alive, no callback attached,  *)
(* and synchronous mode is off.                                            *)
(***************************************************************************)
CleanupDone == nSensors = 0 /\ ~vehicleAlive /\ listening = {} /\ ~syncMode

C15_SummaryAfterCleanupOnInterrupt ==
    /\ pc \in {"finally", "restore_sync", "summary", "done"}
          => exc # "KeyboardInterrupt"
    /\ exc = "caught" => pc \in {"finally", "restore_sync", "summary", "done"}
    /\ pc \in {"summary", "done"} => CleanupDone

\* the loop was interrupted and the summary has been printed
C15_Witness == pc = "done" /\ exc = "caught" /\ CleanupDone

(***************************************************************************)
(* C17: every file cv2.imwrite writes has a path of its own.  The path is  *)
(* taken without its timestamp, which is the case of all calls reading the *)
(* same timestamp: in every folder there are as many files as successful   *)
(* writes, so no write has reused the sequence number of another.          *)
(***************************************************************************)
C17_PathsDistinct ==
    \A d \in Dirs : Cardinality(FilesIn(files, d)) = WritesIn(d)

\* two files written into one folder
C17_Witness == \E d \in Dirs : WritesIn(d) = 2 /\ Cardinality(FilesIn(files, d)) = 2

(***************************************************************************)
(* run() under a scheduler: the statements of run() are taken one after    *)
(* the other and every call into the simulator returns; the clock, the     *)
(* user, the sensors and failures of the environment are under no          *)
(* obligation.                                                             *)
(***************************************************************************)
\* a short drive: the vehicle stands far from both lights or 10 m in front of
\* light 1
ShortDrive ==
    { [loc |-> <<0, 0, 0>>,  fwd |-> <<1, 0>>],
      [loc |-> <<50, 10, 0>>, fwd |-> <<0, -1>> ] }

\* lines 210-211 on the short drive
WorldTickShort == WorldTickTo(ShortDrive)

\* the steps of run() itself
ProgramStep ==
    \/ Start \/ SpawnWorld \/ SpawnVehicle \/ EquipSensor \/ SetSyncMode
    \/ ListenNarrow \/ ListenWide \/ PygameInit
    \/ LoopTest \/ Poll \/ Control \/ WorldTickShort \/ Spectator \/ Gate
    \/ Continue227 \/ Query \/ TlNext \/ TlBucket \/ Continue242 \/ TlDot
    \/ Continue258 \/ CamNext \/ CamCheck \/ CamSkip
    \/ SaveRead \/ SaveWrite \/ SaveRet \/ Mark \/ Log \/ Progress
    \/ Except \/ Release \/ RestoreSync \/ Summary

\* what the environment does to it
EnvStep ==
    \/ SetupFail \/ narrow_callback \/ wide_callback
    \/ QueryFail \/ EnvFail \/ Expire \/ PressQ \/ ReleaseQ \/ CloseWindow
    \/ Interrupt

NextLive == ProgramStep \/ EnvStep

\* the statements of run() are taken one after the other, and the wall clock
\* reaches start_time + duration
SpecLive ==
    Init /\ [][NextLive]_vars /\ WF_vars(ProgramStep) /\ WF_vars(Expire)

\* a quit signal has been raised: the Q key pressed, or the window closed
QuitRaised == qRaised \/ quitQueued

\* the loop has seen a reason to stop: `running` is False or the budget is
\* exhausted
StopObserved == ~running \/ expired

\* the finally block has run to its end
CleanupExecuted == pc \in {"summary", "done", "crashed"} /\ CleanupDone

\* a step that begins a tick (line 160 to line 162)
BeginsTick == pc = "loop_test" /\ pc' = "poll"

\* a step that goes on with the tick after lines 162-171
GoesOnAfterPoll == pc = "poll" /\ pc' = "control"

\* C13: while run() is in its loop, once a quit signal (the Q key, the
\* window's close event) is raised or the duration budget is exhausted, the
\* loop is left no later than one tick afterwards: the first lines 162-171
\* after a quit signal see it, and no tick begins once `running` is False or
\* the budget is exhausted; the cleanup is then always executed, also when the
\* loop is left by an interrupt.
C13_StopReachesCleanup ==
    /\ [][(GoesOnAfterPoll /\ QuitRaised) => (~running')]_vars
    /\ [][(pc \in RunningPcs /\ StopObserved) => (~BeginsTick)]_vars
    /\ (pc \in RunningPcs /\ (QuitRaised \/ StopObserved)) ~> CleanupExecuted
    /\ (pc = "except_276") ~> CleanupExecuted

(***************************************************************************)
(* save_image (lines 86-105) called on its own, whatever the frame cache    *)
(* holds.                                                                  *)
(***************************************************************************)
\* number of calls of save_image that get as far as cv2.imwrite
MaxSaves == 2

\* the camera arguments: the two channels and one that is not configured
CameraArgs == Cameras \cup {"rear"}

\* the frame cache holds any combination of frames
InitSave ==
    /\ \E fr \in [Cameras -> Frames \cup {None}] : InitWith(fr)
    /\ arg = 0
    /\ res = "unset"

\* line 86: save_image(camera, distance_bucket) is entered; the light the
\* caller is about is id
CallSave ==
    /\ pc = "idle"
    /\ SumOf(counters, Dirs) < MaxSaves
    /\ \E cam \in CameraArgs, b \in Buckets, id \in TLIds :
          /\ camera' = cam
          /\ bucket' = b
          /\ tl' = id
    /\ tick0' = Snapshot
    /\ pc' = "save_read"
    /\ UNCHANGED <<exc, running, worldVars, frame, dataVars, vehicle, i, j,
                   saveVars, seen, pureVars, inputVars>>

\* lines 93, 105: return
ReturnSave ==
    /\ pc = "save_ret"
    /\ res' = IF filename = NoFile THEN None ELSE filename
    /\ pc' = "idle"
    /\ UNCHANGED <<exc, running, worldVars, frame, dataVars, vehicle, tlVars,
                   camVars, saveVars, seen, tick0, arg, inputVars>>

NextSave == CallSave \/ SaveRead \/ SaveWrite \/ ReturnSave

SpecSave == InitSave /\ [][NextSave]_vars

\* the frame cache has no frame for the camera of the call in progress, or the
\* camera is not a configured channel
NoFrameFor(cam) == cam \notin Cameras \/ frame[cam] = None

\* C16: save_image called while the frame cache holds no frame for the channel,
\* or with a channel that is not configured, returns None and is a no-op: no
\* file is written and the counters, the statistics and the ledger are as they
\* were at the call.
C16_NoFrameIsNoOp ==
    (pc = "save_ret" /\ NoFrameFor(camera)) =>
        /\ filename = NoFile
        /\ files = tick0.files
        /\ writes = tick0.writes
        /\ counters = tick0.counters
        /\ stats = tick0.stats
        /\ captured = tick0.captured

C16_Witness ==
    /\ pc = "save_ret"
    /\ camera \in Cameras
    /\ frame[camera] = None
    /\ filename = NoFile
    /\ SumOf(counters, Dirs) > 0
    /\ counters = tick0.counters

(***************************************************************************)
(* The manual control mapping of run() (lines 173-198) as a function of    *)
(* the keyboard state and the vehicle's velocity.  Throttle, steer and     *)
(* brake are in tenths, velocities in hundredths of a metre per second.    *)
(***************************************************************************)
\* largest x component of the velocity
MaxVel == 11

\* line 185: 0.1 m/s
Epsilon == 10
\* line 178: 0.7
ForwardThrottle == 7
\* line 186: 0.5
ReverseThrottle == 5
\* line 181: 0.5
BrakeValue == 5
\* lines 192, 194: 0.5
SteerValue == 5

\* line 174: carla.VehicleControl()
VehicleControl ==
    [throttle |-> 0, steer |-> 0, brake |-> 0, hand_brake |-> FALSE,
     reverse |-> FALSE]

KeyStates == [w : BOOLEAN, s : BOOLEAN, a : BOOLEAN, d : BOOLEAN,
              space : BOOLEAN]

Velocities == (0..MaxVel) \X {-8, 0, 6} \X {0, 1}

FloorSqrt(n) == CHOOSE k \in 0..n : Sq(k) <= n /\ Sq(k + 1) > n

SumSq(v) == Sq(v[1]) + Sq(v[2]) + Sq(v[3])

\* line 184, rounded down to the unit: the comparison with Epsilon, a whole
\* number of units, is the comparison of the speed itself
Speed(v) == FloorSqrt(SumSq(v))

\* line 185 with <= for <
SpeedAtMostEpsilon(v) == Speed(v) <= Epsilon

\* line 185
SpeedBelowEpsilon(v) == Speed(v) < Epsilon

\* lines 181-188
BrakeOrReverse(c, v) ==
    LET braked == [c EXCEPT !.brake = BrakeValue]
    IN  IF SpeedBelowEpsilon(v)
        THEN [braked EXCEPT !.throttle = ReverseThrottle, !.reverse = TRUE,
                            !.brake = 0]
        ELSE braked

\* lines 177-188 with `if` for `elif`
ThrottleBrakeBothBranches(c, keys, v) ==
    LET forward == IF keys.w
                   THEN [c EXCEPT !.throttle = ForwardThrottle,
                                  !.reverse = FALSE]
                   ELSE c
    IN  IF keys.s THEN BrakeOrReverse(forward, v) ELSE forward

\* lines 177-188
ThrottleBrake(c, keys, v) ==
    IF keys.w
    THEN [c EXCEPT !.throttle = ForwardThrottle, !.reverse = FALSE]
    ELSE IF keys.s THEN BrakeOrReverse(c, v) ELSE c

\* lines 191-194 with D tested before A
SteeringRightFirst(c, keys) ==
    IF keys.d THEN [c EXCEPT !.steer = SteerValue]
    ELSE IF keys.a THEN [c EXCEPT !.steer = -SteerValue] ELSE c

\* lines 191-194
Steering(c, keys) ==
    IF keys.a THEN [c EXCEPT !.steer = -SteerValue]
    ELSE IF keys.d THEN [c EXCEPT !.steer = SteerValue] ELSE c

\* lines 197-198
Handbrake(c, keys) ==
    IF keys.space THEN [c EXCEPT !.hand_brake = TRUE] ELSE c

\* lines 174-198
ControlFor(keys, v) ==
    Handbrake(Steering(ThrottleBrake(VehicleControl, keys, v), keys), keys)

InitControl ==
    /\ InitRun
    /\ arg \in [keys : KeyStates, velocity : Velocities]
    /\ res = None

\* lines 166-198 for the keyboard state and the velocity of arg
MapControl ==
    /\ pc = "idle"
    /\ res' = ControlFor(arg.keys, arg.velocity)
    /\ pc' = "mapped"
    /\ UNCHANGED <<exc, running, worldVars, frame, dataVars, vehicle, tlVars,
                   camVars, saveVars, seen, tick0, arg, inputVars>>

NextControl == MapControl

SpecControl == InitControl /\ [][NextControl]_vars

NoKeyPressed ==
    ~arg.keys.w /\ ~arg.keys.s /\ ~arg.keys.a /\ ~arg.keys.d /\ ~arg.keys.space

\* the speed is below 0.1 m/s
BelowEpsilon == SumSq(arg.velocity) < Sq(Epsilon)

\* C18: with the forward key not pressed, the brake key pressed while the
\* speed is below 0.1 gives throttle engaged, reverse true and brake 0; the
\* brake key pressed while the speed is at or above 0.1 gives brake only
\* (throttle 0, reverse false); no key pressed gives the neutral command
\* (zero throttle, zero steer, zero brake).
C18_ReverseAssist ==
    (pc = "mapped" /\ ~arg.keys.w) =>
        /\ (arg.keys.s /\ BelowEpsilon) =>
              res.throttle > 0 /\ res.reverse /\ res.brake = 0
        /\ (arg.keys.s /\ ~BelowEpsilon) =>
              res.brake > 0 /\ res.throttle = 0 /\ ~res.reverse
        /\ NoKeyPressed =>
              res.throttle = 0 /\ res.steer = 0 /\ res.brake = 0

C18_Witness ==
    /\ pc = "mapped"
    /\ ~arg.keys.w
    /\ arg.keys.s
    /\ arg.velocity = <<6, -8, 0>>
    /\ res.brake = BrakeValue
    /\ res.throttle = 0
    /\ ~res.reverse

\* C19: whenever the forward key is pressed the command has throttle set,
\* reverse false and brake 0, for every state of the brake key and every
\* speed.
C19_ForwardPriority ==
    (pc = "mapped" /\ arg.keys.w) =>
        /\ res.throttle = ForwardThrottle
        /\ ~res.reverse
        /\ res.brake = 0

C19_Witness ==
    /\ pc = "mapped"
    /\ arg.keys.w
    /\ arg.keys.s
    /\ BelowEpsilon
    /\ res.throttle = ForwardThrottle
    /\ ~res.reverse

\* C20: the steer value is one of -0.5, 0 and 0.5 and depends on the two
\* steer keys only: left alone or with right gives the left value, right alone
\* the right value, neither gives 0; the handbrake flag is set exactly when
\* the handbrake key is pressed.
C20_SteerAndHandbrake ==
    pc = "mapped" =>
        /\ res.steer \in {-SteerValue, 0, SteerValue}
        /\ arg.keys.a => res.steer = -SteerValue
        /\ (~arg.keys.a /\ arg.keys.d) => res.steer = SteerValue
        /\ (~arg.keys.a /\ ~arg.keys.d) => res.steer = 0
        /\ res.hand_brake = arg.keys.space

C20_Witness ==
    /\ pc = "mapped"
    /\ arg.keys.a
    /\ arg.keys.d
    /\ arg.keys.w
    /\ arg.keys.space
    /\ res.steer = -SteerValue
    /\ res.hand_brake

(***************************************************************************)
(* The sensor callbacks against the tick.                                  *)
(***************************************************************************)
\* C21: when a callback of the camera delivers a new frame while a save for
\* that camera is in progress (after lines 88-91 read the slot, before line
\* 101 writes), the file holds the frame the save read: the read takes the
\* slot's frame, no step between read and write changes what was read, and
\* the write hands cv2.imwrite exactly that.
C21_InFlightSaveKeepsItsFrame ==
    /\ [][(pc = "save_read" /\ pc' = "save_write")
            => frameLocal' = frame[camera]]_vars
    /\ [][(pc = "save_write" /\ pc' = "save_write")
            => frameLocal' = frameLocal]_vars
    /\ [][(pc = "save_write" /\ files' # files)
            => (lastWrite' = frameLocal /\ frameLocal' = frameLocal)]_vars

\* a file was written from the frame read although the slot holds a newer one
C21_Witness ==
    /\ pc = "save_ret"
    /\ lastWrite # None
    /\ lastWrite = frameLocal
    /\ frame[camera] # lastWrite

\* C22: a sensor callback, wherever in a tick it arrives, changes the frame
\* slot of its own camera only: the other slot, the ledger, the counters, the
\* statistics and the files are as they were and run() stays where it is; the
\* ledger and the counters are changed by steps of the capture phase of the
\* tick only, and those leave the frame slots alone.
C22_CallbackTouchesOwnSlotOnly ==
    /\ [][frame' # frame
            => /\ \E c \in Cameras :
                     \A o \in Cameras \ {c} : frame'[o] = frame[o]
               /\ captured' = captured
               /\ counters' = counters
               /\ stats' = stats
               /\ files' = files
               /\ pc' = pc]_vars
    /\ [][(captured' # captured \/ counters' # counters)
            => (pc \in CapturePcs /\ pc' # pc /\ frame' = frame)]_vars

\* a callback has come in the middle of a tick: the slot of the camera being
\* saved holds another frame than the one the save read, the other slot still
\* holds the old one
C22_Witness ==
    /\ pc = "save_write"
    /\ frame[camera] # frameLocal
    /\ \E o \in Cameras \ {camera} : frame[o] = frameLocal

(***************************************************************************)
(* The ledger, the counters and the files.                                 *)
(***************************************************************************)
\* C23: the set of keys marked as captured is empty when the collector is
\* created and only grows during a run: a key marked in a state is marked in
\* every later state.
C23_LedgerGrowsMonotonically ==
    /\ captured = {}
    /\ [][captured \subseteq captured']_vars

\* keys marked in earlier ticks are still marked after the tick added more
C23_Witness ==
    /\ pc = "progress"
    /\ tick0.captured # {}
    /\ tick0.captured \subseteq captured
    /\ captured # tick0.captured

(***************************************************************************)
(* The forward-visibility decision (lines 246-258) as a function of the    *)
(* heading and the offset vector.                                          *)
(***************************************************************************)
\* largest component of a heading vector
MaxHead == 2
\* largest component of an offset vector
MaxOff == 3
\* largest scaling factor
MaxK == 3

Headings == ((-MaxHead)..MaxHead) \X ((-MaxHead)..MaxHead)

Offsets == ((-MaxOff)..MaxOff) \X ((-MaxOff)..MaxOff)

ScaledBy(k, v) == <<k * v[1], k * v[2]>>

InitVisible ==
    /\ InitRun
    /\ arg \in [h : Headings, v : Offsets, k : 1..MaxK]
    /\ res = None

\* lines 256-258 for the offset of arg and for the same offset scaled
DecideVisible ==
    /\ pc = "idle"
    /\ res' = [plain |-> BehindVehicle(arg.h, arg.v),
               again |-> BehindVehicle(arg.h, arg.v),
               scaled |-> BehindVehicle(arg.h, ScaledBy(arg.k, arg.v))]
    /\ pc' = "decided"
    /\ UNCHANGED <<exc, running, worldVars, frame, dataVars, vehicle, tlVars,
                   camVars, saveVars, seen, tick0, arg, inputVars>>

NextVisible == DecideVisible

SpecVisible == InitVisible /\ [][NextVisible]_vars

\* C24: the forward-visibility decision is deterministic and the same for an
\* offset vector and for that vector scaled by a factor k > 0, for every
\* heading.
C24_ScaleInvariant ==
    pc = "decided" => (res.again = res.plain /\ res.scaled = res.plain)

\* a light just behind, its offset scaled up
C24_Witness ==
    /\ pc = "decided"
    /\ arg.k > 1
    /\ DotProduct(arg.h, arg.v) = -1
    /\ res.plain
    /\ res.scaled

(***************************************************************************)
(* The tick in which a quit signal is seen.                                *)
(***************************************************************************)
\* lines 173-274: the rest of a tick after lines 162-171
AfterPollPcs == RunningPcs \ {"loop_test", "poll"}

\* C25 (as claimed): in a tick whose lines 162-171 see a quit signal (the Q
\* key or the window's close event), run() leaves the loop at that step: with
\* `running` False it is at none of the later lines of the tick, so it applies
\* no control command, does not advance the simulation and persists nothing.
C25_QuitSeenEndsTick == ~running => pc \notin AfterPollPcs

(***************************************************************************)
(* What a completed tick leaves behind.                                    *)
(***************************************************************************)
\* the keys of the lights that lines 240-258 let through at the pose
EligibleKeys(pose) ==
    {k \in Keys : Eligible(pose, k[1]) /\ k[2] = BucketOf(pose, k[1])}

\* C26: at the end of every tick whose capture phase ran to its end (both
\* frames present, nothing raised), every light with a bucket and a
\* non-negative dot product is marked in the ledger for its bucket and for
\* every camera.
C26_CompletedTickMarksAllEligible ==
    pc = "progress" => EligibleKeys(vehicle) \subseteq captured

\* a tick has marked keys that were not marked before it
C26_Witness ==
    /\ pc = "progress"
    /\ EligibleKeys(vehicle) # {}
    /\ EligibleKeys(vehicle) \cap tick0.captured = {}
    /\ EligibleKeys(vehicle) \subseteq captured

\* the keys marked for the camera and the bucket of folder d
MarkedIn(d) == {k \in captured : k[3] = d[1] /\ k[2] = d[2]}

\* between two ticks: line 160 is about to be evaluated
TickBoundary == pc = "loop_test"

\* C27 (as claimed): at every tick boundary the counter of a folder equals its
\* statistics count, the number of ledger keys marked with its camera and
\* bucket, and the number of files written into it; and the grand total of the
\* summary equals the number of marked keys.
C27_CountersLedgerFilesAgree ==
    /\ TickBoundary =>
          \A d \in Dirs :
              /\ counters[d] = stats[d]
              /\ counters[d] = Cardinality(MarkedIn(d))
              /\ counters[d] = Cardinality(FilesIn(files, d))
    /\ pc \in {"summary", "done"} => SumOf(stats, Dirs) = Cardinality(captured)

\* C28: every file persisted for a key (light, bucket, camera) is written into
\* the folder of that key's camera and bucket, and that folder is one of the
\* camera x bucket folders __init__ created: every bucket get_distance_bucket
\* returns is one of the configured labels and every camera offered is a
\* configured camera.
C28_FileInFolderOfItsKey ==
    /\ [](/\ \A f \in files : <<f[1], f[2]>> \in Dirs
          /\ bucket \in Buckets \cup {None}
          /\ camera \in Cameras \cup {None}
          /\ pc = "idle" =>
                \A d \in 0..(MaxDist * Scale) :
                    get_distance_bucket(d) \in Buckets \cup {None})
    /\ [][files' # files
            => /\ Key \in Keys
               /\ writes' = [writes EXCEPT ![Key] = @ + 1]
               /\ \E f \in files' \ files :
                     /\ files' = files \cup {f}
                     /\ f[1] = camera
                     /\ f[2] = bucket]_vars

\* files of both cameras and of two buckets are on disk
C28_Witness ==
    /\ \A c \in Cameras : \E f \in files : f[1] = c
    /\ \E f, g \in files : f[2] # g[2]
    /\ \A d \in Dirs : Cardinality(FilesIn(files, d)) = WritesIn(d)

====
